---- MODULE Spec2Model ----
(***************************************************************************)
(* certinject: injection of certificates into the Windows CryptoAPI        *)
(* registry store (injectCertCryptoAPI) and the sweep that removes the     *)
(* injected certificates once they are stale (cleanCertsCryptoAPI).        *)
(*                                                                         *)
(* Every registry call of the two functions is one atomic step; the        *)
(* registry, the clock and the outcome (success / failure) of each call    *)
(* are the environment.  Time is counted in hours, and a call is short     *)
(* next to an hour: the clock advances between calls.                      *)
(***************************************************************************)
EXTENDS Integers, Sequences, FiniteSets, TLC

\* ------------------------------------------------------------------ bounds
\* The clock advances at most MaxTicks times and never beyond MaxTime.
MaxTicks == 2
MaxTime == 25

\* The amounts (hours) by which one advance of the clock moves it.
TickSteps == {1, 24}

\* ---------------------------------------------------------------- byte data
(* A byte string is a sequence of segments.  A segment [id |-> "", byte |-> b]
   is the single byte b; a segment [id |-> c, byte |-> 0] with c # "" stands
   for the whole DER encoding of the certificate called c, whose length is
   CertLen(c).  A length is a pair <<hi, lo>> of 16-bit halves (hi * 65536 +
   lo), so that lengths beyond the unsigned 32-bit range can be written. *)
Lit(b) == [id |-> "", byte |-> b]
Der(c) == <<[id |-> c, byte |-> 0]>>

certA == Der("certA")
certB == Der("certB")
certHuge == Der("certHuge")

\* The certificates handed to injectCertCryptoAPI.
DerInputs == {certA, certB, certHuge}

CertLen(c) ==
  CASE c = "certA" -> <<0, 3>>
    [] c = "certB" -> <<0, 300>>
    [] c = "certHuge" -> <<65536, 0>>
    [] OTHER -> <<0, 0>>

AddLen(x, y) ==
  <<x[1] + y[1] + ((x[2] + y[2]) \div 65536), (x[2] + y[2]) % 65536>>

SegLen(s) == IF s.id = "" THEN <<0, 1>> ELSE CertLen(s.id)

RECURSIVE ByteLen(_)
ByteLen(bs) ==
  IF bs = <<>> THEN <<0, 0>> ELSE AddLen(SegLen(Head(bs)), ByteLen(Tail(bs)))

\* ------------------------------------------------------------ certblob codec
\* Little-endian unsigned 32-bit encoding of a small number / of a length.
LE32(n) ==
  <<Lit(n % 256), Lit((n \div 256) % 256), Lit((n \div 65536) % 256),
    Lit((n \div 16777216) % 256)>>

LE32Len(l) ==
  <<Lit(l[2] % 256), Lit(l[2] \div 256), Lit(l[1] % 256), Lit(l[1] \div 256)>>

\* One record: 12-byte header (tag, reserved = 1, length) and the payload.
MarshalRecord(tag, payload) ==
  LE32(tag) \o LE32(1) \o LE32Len(ByteLen(payload)) \o payload

RECURSIVE MarshalTags(_, _)
MarshalTags(blob, tags) ==
  IF tags = {} THEN <<>>
  ELSE LET t == CHOOSE x \in tags : \A y \in tags : x <= y
       IN  MarshalRecord(t, blob[t]) \o MarshalTags(blob, tags \ {t})

\* blob.Marshal(): the records concatenated; an error when a payload length
\* does not fit 32 bits.
Marshal(blob) ==
  IF \E t \in DOMAIN blob : ByteLen(blob[t])[1] >= 65536
  THEN [err |-> TRUE, bytes |-> <<>>]
  ELSE [err |-> FALSE, bytes |-> MarshalTags(blob, DOMAIN blob)]

\* The value of a little-endian field of four literal bytes, as a length.
FieldLen(f) == <<f[3].byte + 256 * f[4].byte, f[1].byte + 256 * f[2].byte>>
FieldNum(f) ==
  f[1].byte + 256 * f[2].byte + 65536 * f[3].byte + 16777216 * (f[4].byte % 128)

\* The shortest prefix of bs holding exactly len bytes, 0 when bs runs out
\* first, -1 when no segment boundary falls on len.
RECURSIVE PrefixOfLen(_, _, _)
PrefixOfLen(bs, k, len) ==
  IF ByteLen(SubSeq(bs, 1, k)) = len THEN k
  ELSE IF k = Len(bs) THEN 0
  ELSE IF ByteLen(SubSeq(bs, 1, k))[1] > len[1]
          \/ (ByteLen(SubSeq(bs, 1, k))[1] = len[1]
              /\ ByteLen(SubSeq(bs, 1, k))[2] > len[2]) THEN -1
  ELSE PrefixOfLen(bs, k + 1, len)

\* Decoding: header then payload, until the input is exhausted.
RECURSIVE Unmarshal(_)
Unmarshal(bs) ==
  IF bs = <<>> THEN [err |-> "none", records |-> <<>>]
  ELSE IF Len(bs) < 12 \/ \E i \in 1..12 : bs[i].id # ""
  THEN [err |-> "TruncatedHeader", records |-> <<>>]
  ELSE LET tag == FieldNum(SubSeq(bs, 1, 4))
           len == FieldLen(SubSeq(bs, 9, 12))
           rest == SubSeq(bs, 13, Len(bs))
           k == PrefixOfLen(rest, 0, len)
       IN  IF k <= 0 /\ len # <<0, 0>>
           THEN [err |-> "TruncatedPayload", records |-> <<>>]
           ELSE LET more == Unmarshal(SubSeq(rest, k + 1, Len(rest)))
                IN  [err |-> more.err,
                     records |-> <<[tag |-> tag, payload |-> SubSeq(rest, 1, k)]>>
                                    \o more.records]

\* --------------------------------------------------------------- fingerprint
\* sha1.Sum, as a table over the certificates of the model; a digest is
\* shortened to its first two bytes.
sha1Sum(der) ==
  CASE der = certA -> <<161, 178>>
    [] der = certB -> <<60, 77>>
    [] OTHER -> <<15, 240>>

hextable ==
  <<"0", "1", "2", "3", "4", "5", "6", "7", "8", "9", "a", "b", "c", "d", "e", "f">>

\* hex.EncodeToString: two lowercase digits per byte, high nibble first.
RECURSIVE EncodeToString(_)
EncodeToString(src) ==
  IF src = <<>> THEN <<>>
  ELSE <<hextable[(Head(src) \div 16) + 1], hextable[(Head(src) % 16) + 1]>>
       \o EncodeToString(Tail(src))

UpperOf(ch) ==
  CASE ch = "a" -> "A" [] ch = "b" -> "B" [] ch = "c" -> "C"
    [] ch = "d" -> "D" [] ch = "e" -> "E" [] ch = "f" -> "F"
    [] OTHER -> ch

\* strings.ToUpper
ToUpper(str) == [i \in 1..Len(str) |-> UpperOf(str[i])]

\* The fingerprint without strings.ToUpper.
FingerprintHex(der) == EncodeToString(sha1Sum(der))

\* fingerprintHexUpper: the name of the certificate's registry key.
FingerprintHexUpper(der) == ToUpper(EncodeToString(sha1Sum(der)))

\* ------------------------------------------------------------ store location
cryptoAPIMagicValue == 1

\* A DWORD that is not the magic value, as another program may have left it.
OtherMagicValue == cryptoAPIMagicValue + 1

cryptoAPIStores ==
  [x \in {"current-user", "system", "enterprise", "group-policy"} |->
    CASE x = "current-user" ->
           [Base |-> "CURRENT_USER",
            Physical |-> <<"SOFTWARE", "Microsoft", "SystemCertificates">>,
            Logical |-> <<"%s", "Certificates">>]
      [] x = "system" ->
           [Base |-> "LOCAL_MACHINE",
            Physical |-> <<"SOFTWARE", "Microsoft", "SystemCertificates">>,
            Logical |-> <<"%s", "Certificates">>]
      [] x = "enterprise" ->
           [Base |-> "LOCAL_MACHINE",
            Physical |-> <<"SOFTWARE", "Microsoft", "EnterpriseCertificates">>,
            Logical |-> <<"%s", "Certificates">>]
      [] x = "group-policy" ->
           [Base |-> "LOCAL_MACHINE",
            Physical |-> <<"SOFTWARE", "Policies", "Microsoft", "SystemCertificates">>,
            Logical |-> <<"%s", "Certificates">>]]

\* The values the physical-store and logical-store flags are given.
PhysicalStoreNames ==
  {"current-user", "system", "enterprise", "group-policy", "machine"}
LogicalStoreNames == {"Root"}

\* The expiry periods (hours) the program is configured with.
ExpirePeriods == {24}

\* Store.Key(): Physical, then Logical with %s replaced by the logical store.
StoreKey(s, logical) ==
  s.Physical
    \o [i \in 1..Len(s.Logical) |->
          IF s.Logical[i] = "%s" THEN logical ELSE s.Logical[i]]

\* cryptoAPINameToStore
cryptoAPINameToStore(name) ==
  IF name \in DOMAIN cryptoAPIStores
  THEN [err |-> FALSE, store |-> cryptoAPIStores[name]]
  ELSE [err |-> TRUE,
        store |-> [Base |-> "", Physical |-> <<>>, Logical |-> <<>>]]

\* The path registry.OpenKey(store.Base, store.Key()) opens.
StorePath(s, logical) == <<s.Base>> \o StoreKey(s, logical)

\* ------------------------------------------------------------------- state
VARIABLES
  registry,                        \* store path -> (key name -> certificate key)
  now,                             \* the clock, in hours
  ticks,                           \* how often the clock has advanced
  cryptoAPIFlagPhysicalStoreName,  \* the physical-store flag
  cryptoAPIFlagLogicalStoreName,   \* the logical-store flag
  certExpirePeriod,                \* the expiry period flag, in hours
  inj,                             \* the injectCertCryptoAPI call, running or last
  cln,                             \* the cleanCertsCryptoAPI call, running or last
  swept                            \* per key name, what the sweep did with it

vars ==
  <<registry, now, ticks, cryptoAPIFlagPhysicalStoreName,
    cryptoAPIFlagLogicalStoreName, certExpirePeriod, inj, cln, swept>>

flags ==
  <<cryptoAPIFlagPhysicalStoreName, cryptoAPIFlagLogicalStoreName, certExpirePeriod>>

\* The certificates whose keys the store may hold, and the names of those keys.
KnownCerts == {certA, certB}
KeyNames == {FingerprintHexUpper(c) : c \in KnownCerts}

(* A certificate key: its values "Namecoin" (magic) and "Blob", each a set
   holding the value when it is present, and the key's last-write time mod.
   The other fields are history, which no call reads:
     creator     "tool": the key was created by CreateKey of an injection (of
                 this run or an earlier one); "other": by another program, and
                 no injection has written into it; "adopted": by another
                 program, and an injection has written the magic value into it;
     injectedAt  the time at which an injection into the key last returned
                 with every step done (the magic value absent or deleted, then
                 written, then the Blob), -1 when there was none or when a
                 later injection has opened the key;
     renewed     whether that injection found the magic value and deleted it:
                 "no", or else "stale" when the key was then older than the
                 expiry period, "recent" when it was not. *)
Entry(magic, blob, mod, creator) ==
  [magic |-> magic, blob |-> blob, mod |-> mod, creator |-> creator,
   injectedAt |-> -1, renewed |-> "no"]

NoEntry == Entry({}, {}, 0, "")

\* certBlob with the tag of the SHA-1 hash record in place of 0x20.
certBlobHashTag(der) == (3 :> der)

\* The Blob this program writes for a certificate: the one record 0x20.
certBlob(der) == (32 :> der)

\* The Blob CryptoAPI itself keeps: the SHA-1 hash record (3) and the certificate.
SystemBlob(der) ==
  (3 :> [i \in 1..Len(sha1Sum(der)) |-> Lit(sha1Sum(der)[i])]) @@ (32 :> der)

\* Last-write times of the keys an earlier run left: past, or ahead of the clock.
InitModTimes == {0, MaxTime}

\* What the store may hold for a certificate before the run.
InitEntries(der) ==
  {Entry({}, {Marshal(SystemBlob(der)).bytes}, 0, "other"),
   Entry({OtherMagicValue}, {Marshal(SystemBlob(der)).bytes}, 0, "other")}
  \cup {Entry({cryptoAPIMagicValue}, {Marshal(certBlob(der)).bytes}, t, "tool") :
          t \in InitModTimes}

flagStore == cryptoAPINameToStore(cryptoAPIFlagPhysicalStoreName)
flagPath == StorePath(flagStore.store, cryptoAPIFlagLogicalStoreName)

\* The certificate stores that exist on the machine.
ExistingStores == {StorePath(cryptoAPIStores["system"], "Root")}

SubKeys == registry[flagPath]
HasKey(n) == flagPath \in DOMAIN registry /\ n \in DOMAIN SubKeys

Unswept == [out |-> "unvisited", at |-> 0, seen |-> NoEntry]
NoSweep == [n \in KeyNames |-> Unswept]

injIdle ==
  [pc |-> "idle", der |-> <<>>, blobBytes |-> <<>>, handles |-> {},
   err |-> "none", found |-> "none", del |-> "none", stale |-> FALSE,
   returned |-> FALSE]

clnIdle ==
  [pc |-> "idle", subKeys |-> <<>>, i |-> 0, handles |-> {}, err |-> "none",
   returned |-> FALSE]

Init ==
  /\ now = 0
  /\ ticks = 0
  /\ cryptoAPIFlagPhysicalStoreName \in PhysicalStoreNames
  /\ cryptoAPIFlagLogicalStoreName \in LogicalStoreNames
  /\ certExpirePeriod \in ExpirePeriods
  /\ \E present \in SUBSET KnownCerts :
       \E content \in [present -> UNION {InitEntries(c) : c \in KnownCerts}] :
         /\ \A c \in present : content[c] \in InitEntries(c)
         /\ registry =
              [p \in ExistingStores |->
                 IF p = flagPath
                 THEN [n \in {FingerprintHexUpper(c) : c \in present} |->
                         content[CHOOSE c \in present : FingerprintHexUpper(c) = n]]
                 ELSE [n \in {} |-> NoEntry]]
  /\ inj = injIdle
  /\ cln = clnIdle
  /\ swept = NoSweep

Abs(x) == IF x < 0 THEN -x ELSE x

\* ------------------------------------------------------- registry operations
(* The registry keeps a key's last-write time: it advances when the key is
   created and when a value of the key is created or deleted.  Whether
   overwriting a value that exists advances it is left open (touch). *)
WithKey(n, e) == [registry EXCEPT ![flagPath] = (n :> e) @@ @]
WithoutKey(n) ==
  [registry EXCEPT ![flagPath] = [m \in (DOMAIN @) \ {n} |-> @[m]]]

\* registry.CreateKey: creates the key, or opens it when it exists.
RegCreateKey(n) ==
  IF n \in DOMAIN SubKeys THEN SubKeys[n] ELSE Entry({}, {}, now, "tool")

\* k.DeleteValue of a value that exists.
RegDeleteValue(e) == [e EXCEPT !.magic = {}, !.mod = now]

\* k.SetDWordValue
RegSetDWordValue(e, v, touch) ==
  [e EXCEPT !.magic = {v}, !.mod = IF e.magic = {} \/ touch THEN now ELSE @]

\* k.SetBinaryValue
RegSetBinaryValue(e, bytes, touch) ==
  [e EXCEPT !.blob = {bytes}, !.mod = IF e.blob = {} \/ touch THEN now ELSE @]

\* ------------------------------------------------------ injectCertCryptoAPI
injReturn(err) == [inj EXCEPT !.pc = "idle", !.handles = {}, !.err = err,
                              !.returned = TRUE]

\* fingerprintHexUpper computed once, over the first certificate injected.
fingerprintOfFirst == FingerprintHexUpper(certA)

fingerprintHexUpper == FingerprintHexUpper(inj.der)

\* InjectOpenStore with CreateKey in place of OpenKey: a store key that is
\* missing is created.
InjectCreateStore(der, ok) ==
  /\ inj.pc = "idle"
  /\ LET started == [injIdle EXCEPT !.der = der]
         blob == Marshal(certBlob(der))
     IN  /\ inj' =
              IF flagStore.err
              THEN [started EXCEPT !.err = "store", !.returned = TRUE]
              ELSE IF blob.err
              THEN [started EXCEPT !.err = "marshal", !.returned = TRUE]
              ELSE IF ~ok
              THEN [started EXCEPT !.err = "open", !.returned = TRUE]
              ELSE [started EXCEPT !.pc = "CreateKey", !.blobBytes = blob.bytes,
                                   !.handles = {"certStoreKey"}]
         /\ registry' =
              IF ~flagStore.err /\ ~blob.err /\ ok /\ flagPath \notin DOMAIN registry
              THEN (flagPath :> [n \in {} |-> NoEntry]) @@ registry
              ELSE registry
  /\ cln' = IF cln.pc = "idle" THEN clnIdle ELSE cln
  /\ swept' = IF cln.pc = "idle" THEN NoSweep ELSE swept
  /\ UNCHANGED <<now, ticks, flags>>

\* What CreateKey of line 149 finds under the name n: no key ("new"), or a key
\* with neither value ("bare"), one of the two, or both.
Found(n) ==
  IF ~HasKey(n) THEN "new"
  ELSE IF SubKeys[n].magic = {} /\ SubKeys[n].blob = {} THEN "bare"
  ELSE IF SubKeys[n].magic = {} THEN "blob"
  ELSE IF SubKeys[n].blob = {} THEN "magic"
  ELSE "both"

\* Lines 66-132: resolve the store, marshal the Blob, open the store key.
\* (The record of the sweep before this call is dropped.)
InjectOpenStore(der, ok) ==
  /\ inj.pc = "idle"
  /\ LET started == [injIdle EXCEPT !.der = der]
         blob == Marshal(certBlob(der))
     IN  inj' =
           IF flagStore.err
           THEN [started EXCEPT !.err = "store", !.returned = TRUE]
           ELSE IF blob.err
           THEN [started EXCEPT !.err = "marshal", !.returned = TRUE]
           ELSE IF ~(ok /\ flagPath \in DOMAIN registry)
           THEN [started EXCEPT !.err = "open", !.returned = TRUE]
           ELSE [started EXCEPT !.pc = "CreateKey", !.blobBytes = blob.bytes,
                                !.handles = {"certStoreKey"}]
  /\ cln' = IF cln.pc = "idle" THEN clnIdle ELSE cln
  /\ swept' = IF cln.pc = "idle" THEN NoSweep ELSE swept
  /\ UNCHANGED <<registry, now, ticks, flags>>

\* Lines 149-154: create (or open) the certificate's key.
InjectCreateKey(ok) ==
  /\ inj.pc = "CreateKey"
  /\ IF ok
     THEN /\ registry' =
               WithKey(fingerprintHexUpper,
                       [RegCreateKey(fingerprintHexUpper) EXCEPT
                          !.injectedAt = -1, !.renewed = "no"])
          /\ inj' = [inj EXCEPT !.pc = "DeleteValue",
                                !.handles = @ \cup {"certKey"},
                                !.found = Found(fingerprintHexUpper)]
     ELSE /\ inj' = injReturn("create")
          /\ UNCHANGED registry
  /\ UNCHANGED <<now, ticks, flags, cln, swept>>

\* InjectDeleteValue without the call of DeleteValue: the magic value stays.
InjectKeepValue(ok) ==
  /\ inj.pc = "DeleteValue"
  /\ inj' = [inj EXCEPT
               !.pc = "SetDWordValue",
               !.del = IF ~HasKey(fingerprintHexUpper) THEN "error"
                       ELSE IF SubKeys[fingerprintHexUpper].magic = {} THEN "absent"
                       ELSE "deleted",
               !.stale = HasKey(fingerprintHexUpper)
                           /\ Abs(now - SubKeys[fingerprintHexUpper].mod)
                                > certExpirePeriod]
  /\ UNCHANGED <<registry, now, ticks, flags, cln, swept>>

\* Line 162: delete the magic value; the error is ignored.
InjectDeleteValue(ok) ==
  /\ inj.pc = "DeleteValue"
  /\ IF ok /\ HasKey(fingerprintHexUpper)
           /\ SubKeys[fingerprintHexUpper].magic # {}
     THEN /\ registry' = WithKey(fingerprintHexUpper,
                                 RegDeleteValue(SubKeys[fingerprintHexUpper]))
          /\ inj' = [inj EXCEPT
                       !.pc = "SetDWordValue", !.del = "deleted",
                       !.stale = Abs(now - SubKeys[fingerprintHexUpper].mod)
                                   > certExpirePeriod]
     ELSE /\ inj' = [inj EXCEPT
                       !.pc = "SetDWordValue",
                       !.del = IF HasKey(fingerprintHexUpper)
                                  /\ SubKeys[fingerprintHexUpper].magic = {}
                               THEN "absent" ELSE "error"]
          /\ UNCHANGED registry
  /\ UNCHANGED <<now, ticks, flags, cln, swept>>

\* InjectSetDWordValue writing a value that is not the magic value.
InjectSetOtherValue(ok, touch) ==
  /\ inj.pc = "SetDWordValue"
  /\ IF ok /\ HasKey(fingerprintHexUpper)
     THEN /\ registry' =
               WithKey(fingerprintHexUpper,
                       [RegSetDWordValue(SubKeys[fingerprintHexUpper],
                                         OtherMagicValue, touch) EXCEPT
                          !.creator = IF @ = "other" THEN "adopted" ELSE @])
          /\ inj' = [inj EXCEPT !.pc = "SetBinaryValue"]
     ELSE /\ inj' = injReturn("magic")
          /\ UNCHANGED registry
  /\ UNCHANGED <<now, ticks, flags, cln, swept>>

\* InjectSetDWordValue going on to the Blob when the write of the magic value
\* fails.
InjectSetDWordValueOn(ok, touch) ==
  /\ inj.pc = "SetDWordValue"
  /\ IF ok /\ HasKey(fingerprintHexUpper)
     THEN registry' =
            WithKey(fingerprintHexUpper,
                    [RegSetDWordValue(SubKeys[fingerprintHexUpper],
                                      cryptoAPIMagicValue, touch) EXCEPT
                       !.creator = IF @ = "other" THEN "adopted" ELSE @])
     ELSE UNCHANGED registry
  /\ inj' = [inj EXCEPT !.pc = "SetBinaryValue"]
  /\ UNCHANGED <<now, ticks, flags, cln, swept>>

\* Lines 164-168: write the magic value.
InjectSetDWordValue(ok, touch) ==
  /\ inj.pc = "SetDWordValue"
  /\ IF ok /\ HasKey(fingerprintHexUpper)
     THEN /\ registry' =
               WithKey(fingerprintHexUpper,
                       [RegSetDWordValue(SubKeys[fingerprintHexUpper],
                                         cryptoAPIMagicValue, touch) EXCEPT
                          !.creator = IF @ = "other" THEN "adopted" ELSE @])
          /\ inj' = [inj EXCEPT !.pc = "SetBinaryValue"]
     ELSE /\ inj' = injReturn("magic")
          /\ UNCHANGED registry
  /\ UNCHANGED <<now, ticks, flags, cln, swept>>

\* InjectSetBinaryValue writing by name, through CreateKey, instead of through
\* the handle of line 149: a key deleted in the meantime is created again.
InjectSetBinaryValueByName(ok, touch) ==
  /\ inj.pc = "SetBinaryValue"
  /\ IF ok
     THEN /\ registry' =
               WithKey(fingerprintHexUpper,
                       [RegSetBinaryValue(RegCreateKey(fingerprintHexUpper),
                                          inj.blobBytes, touch) EXCEPT
                          !.injectedAt =
                             IF inj.del \in {"deleted", "absent"} THEN now ELSE -1,
                          !.renewed =
                             IF inj.del # "deleted" THEN "no"
                             ELSE IF inj.stale THEN "stale" ELSE "recent"])
          /\ inj' = injReturn("none")
     ELSE /\ inj' = injReturn("blob")
          /\ UNCHANGED registry
  /\ UNCHANGED <<now, ticks, flags, cln, swept>>

\* InjectSetBinaryValue heeding openedExisting: the Blob is written only into a
\* key that CreateKey created.
InjectSetBinaryValueIfNew(ok, touch) ==
  /\ inj.pc = "SetBinaryValue"
  /\ IF ok /\ HasKey(fingerprintHexUpper)
     THEN /\ registry' =
               WithKey(fingerprintHexUpper,
                       [(IF inj.found = "new"
                         THEN RegSetBinaryValue(SubKeys[fingerprintHexUpper],
                                                inj.blobBytes, touch)
                         ELSE SubKeys[fingerprintHexUpper]) EXCEPT
                          !.injectedAt =
                             IF inj.del \in {"deleted", "absent"} THEN now ELSE -1,
                          !.renewed =
                             IF inj.del # "deleted" THEN "no"
                             ELSE IF inj.stale THEN "stale" ELSE "recent"])
          /\ inj' = injReturn("none")
     ELSE /\ inj' = injReturn("blob")
          /\ UNCHANGED registry
  /\ UNCHANGED <<now, ticks, flags, cln, swept>>

\* Lines 171-176: write the Blob and return.
InjectSetBinaryValue(ok, touch) ==
  /\ inj.pc = "SetBinaryValue"
  /\ IF ok /\ HasKey(fingerprintHexUpper)
     THEN /\ registry' =
               WithKey(fingerprintHexUpper,
                       [RegSetBinaryValue(SubKeys[fingerprintHexUpper],
                                          inj.blobBytes, touch) EXCEPT
                          !.injectedAt =
                             IF inj.del \in {"deleted", "absent"} THEN now ELSE -1,
                          !.renewed =
                             IF inj.del # "deleted" THEN "no"
                             ELSE IF inj.stale THEN "stale" ELSE "recent"])
          /\ inj' = injReturn("none")
     ELSE /\ inj' = injReturn("blob")
          /\ UNCHANGED registry
  /\ UNCHANGED <<now, ticks, flags, cln, swept>>

\* ------------------------------------------------------- cleanCertsCryptoAPI
clnReturn(err) == [cln EXCEPT !.pc = "idle", !.handles = {}, !.err = err,
                              !.returned = TRUE]

\* clnContinue without the deferred Close of line 226: the handle of the key
\* just checked stays open.
clnContinueOpen ==
  IF cln.i < Len(cln.subKeys)
  THEN [cln EXCEPT !.pc = "OpenKey", !.i = @ + 1]
  ELSE clnReturn("none")

\* The end of one pass of the loop of lines 203-217: the next name, or return.
clnContinue ==
  IF cln.i < Len(cln.subKeys)
  THEN [cln EXCEPT !.pc = "OpenKey", !.i = @ + 1, !.handles = {"certStoreKey"}]
  ELSE clnReturn("none")

subKeyName == cln.subKeys[cln.i]

\* The record of what the sweep found and did at key n.
Sweep(n, out) ==
  [swept EXCEPT ![n] = [out |-> out, at |-> now,
                        seen |-> IF HasKey(n) THEN SubKeys[n] ELSE NoEntry]]

\* The orders in which ReadSubKeyNames may list the keys of the store.
Orders(S) ==
  {o \in [1..Cardinality(S) -> S] : \A i, j \in 1..Cardinality(S) : o[i] = o[j] => i = j}
ListOrders == IF flagPath \in DOMAIN registry THEN Orders(DOMAIN SubKeys) ELSE {<<>>}

\* k.GetIntegerValue: the value, or an error when it is absent or unreadable.
GetIntegerValue(e, ok) ==
  IF ok /\ e.magic # {}
  THEN [err |-> FALSE, val |-> CHOOSE v \in e.magic : TRUE]
  ELSE [err |-> TRUE, val |-> 0]

\* isNamecoin without the comparison of line 235: any magic value counts.
isNamecoinAnyValue(e, ok) == ~GetIntegerValue(e, ok).err

\* Lines 229-238: does the key carry the magic value of this program?
isNamecoin(e, ok) ==
  /\ ~GetIntegerValue(e, ok).err
  /\ GetIntegerValue(e, ok).val = cryptoAPIMagicValue

\* time.Since(certKeyModTime)
Since(modTime) == now - modTime

\* expired with >= in place of >.
expiredAtPeriod(modTime) == Abs(Since(modTime)) >= certExpirePeriod

\* expired without math.Abs: only a last-write time in the past counts.
expiredSince(modTime) == Since(modTime) > certExpirePeriod

\* expired with the period taken for minutes against a time in hours.
expiredUnits(modTime) == Abs(Since(modTime)) > certExpirePeriod * 60

\* Line 251: the last-write time differs from now by more than the period.
expired(modTime) == Abs(Since(modTime)) > certExpirePeriod

\* Lines 178-193: resolve the store and open the store key.
\* (The records of the calls before this one are dropped.)
CleanOpenStore(ok) ==
  /\ cln.pc = "idle"
  /\ cln' =
       IF flagStore.err
       THEN [clnIdle EXCEPT !.err = "store", !.returned = TRUE]
       ELSE IF ~(ok /\ flagPath \in DOMAIN registry)
       THEN [clnIdle EXCEPT !.err = "open", !.returned = TRUE]
       ELSE [clnIdle EXCEPT !.pc = "ReadSubKeyNames", !.handles = {"certStoreKey"}]
  /\ swept' = NoSweep
  /\ inj' = IF inj.pc = "idle" THEN injIdle ELSE inj
  /\ UNCHANGED <<registry, now, ticks, flags>>

\* CleanReadSubKeyNames logging the error and going on with the names it has.
CleanReadSubKeyNamesOn(ok, order) ==
  /\ cln.pc = "ReadSubKeyNames"
  /\ order \in ListOrders
  /\ cln' =
       IF order = <<>>
       THEN [clnReturn(IF ok THEN "none" ELSE "list") EXCEPT !.subKeys = order]
       ELSE [cln EXCEPT !.pc = "OpenKey", !.subKeys = order, !.i = 1,
                        !.err = IF ok THEN "none" ELSE "list"]
  /\ UNCHANGED <<registry, now, ticks, flags, inj, swept>>

\* Lines 196-203: list the names of the certificate keys.
CleanReadSubKeyNames(ok, order) ==
  /\ cln.pc = "ReadSubKeyNames"
  /\ order \in ListOrders
  /\ cln' =
       IF ~ok THEN clnReturn("list")
       ELSE IF order = <<>> THEN [clnReturn("none") EXCEPT !.subKeys = order]
       ELSE [cln EXCEPT !.pc = "OpenKey", !.subKeys = order, !.i = 1]
  /\ UNCHANGED <<registry, now, ticks, flags, inj, swept>>

\* Lines 222-226 and 205-209: open the key; an error ends the sweep.
CleanOpenKey(ok) ==
  /\ cln.pc = "OpenKey"
  /\ IF ok /\ HasKey(subKeyName)
     THEN /\ cln' = [cln EXCEPT !.pc = "GetIntegerValue",
                                !.handles = @ \cup {"certKey"}]
          /\ UNCHANGED swept
     ELSE /\ cln' = clnReturn("check")
          /\ swept' = Sweep(subKeyName, "openError")
  /\ UNCHANGED <<registry, now, ticks, flags, inj>>

\* CleanGetIntegerValue going on to Stat whatever the magic value is.
CleanIgnoreMagic(ok) ==
  /\ cln.pc = "GetIntegerValue"
  /\ IF HasKey(subKeyName)
     THEN /\ cln' = [cln EXCEPT !.pc = "Stat"]
          /\ UNCHANGED swept
     ELSE /\ cln' = clnContinue
          /\ swept' = Sweep(subKeyName, "unreadable")
  /\ UNCHANGED <<registry, now, ticks, flags, inj>>

\* Lines 229-238: read the magic value; a key without it is not expired.
CleanGetIntegerValue(ok) ==
  /\ cln.pc = "GetIntegerValue"
  /\ IF HasKey(subKeyName) /\ isNamecoin(SubKeys[subKeyName], ok)
     THEN /\ cln' = [cln EXCEPT !.pc = "Stat"]
          /\ UNCHANGED swept
     ELSE /\ cln' = clnContinue
          /\ swept' = Sweep(subKeyName, IF ok THEN "notNamecoin" ELSE "unreadable")
  /\ UNCHANGED <<registry, now, ticks, flags, inj>>

\* Lines 241-253 and 205-212: read the last-write time and compare.
CleanStat(ok) ==
  /\ cln.pc = "Stat"
  /\ IF ~(ok /\ HasKey(subKeyName))
     THEN /\ cln' = clnReturn("check")
          /\ swept' = Sweep(subKeyName, "statError")
     ELSE IF expired(SubKeys[subKeyName].mod)
     THEN /\ cln' = [cln EXCEPT !.pc = "DeleteKey", !.handles = {"certStoreKey"}]
          /\ swept' = Sweep(subKeyName, "expired")
     ELSE /\ cln' = clnContinue
          /\ swept' = Sweep(subKeyName, "fresh")
  /\ UNCHANGED <<registry, now, ticks, flags, inj>>

\* CleanDeleteKey returning the error of DeleteKey instead of logging it.
CleanDeleteKeyReturn(ok) ==
  /\ cln.pc = "DeleteKey"
  /\ IF ok /\ HasKey(subKeyName)
     THEN /\ registry' = WithoutKey(subKeyName)
          /\ swept' = [swept EXCEPT ![subKeyName].out = "deleted"]
          /\ cln' = clnContinue
     ELSE /\ swept' = [swept EXCEPT ![subKeyName].out = "deleteError"]
          /\ cln' = clnReturn("delete")
          /\ UNCHANGED registry
  /\ UNCHANGED <<now, ticks, flags, inj>>

\* CleanDeleteKey ending the loop after the first key it deletes.
CleanDeleteKeyOnce(ok) ==
  /\ cln.pc = "DeleteKey"
  /\ IF ok /\ HasKey(subKeyName)
     THEN /\ registry' = WithoutKey(subKeyName)
          /\ swept' = [swept EXCEPT ![subKeyName].out = "deleted"]
          /\ cln' = clnReturn("none")
     ELSE /\ swept' = [swept EXCEPT ![subKeyName].out = "deleteError"]
          /\ cln' = clnContinue
          /\ UNCHANGED registry
  /\ UNCHANGED <<now, ticks, flags, inj>>

\* Lines 212-216: delete the expired key; an error is logged, the loop goes on.
CleanDeleteKey(ok) ==
  /\ cln.pc = "DeleteKey"
  /\ IF ok /\ HasKey(subKeyName)
     THEN /\ registry' = WithoutKey(subKeyName)
          /\ swept' = [swept EXCEPT ![subKeyName].out = "deleted"]
     ELSE /\ swept' = [swept EXCEPT ![subKeyName].out = "deleteError"]
          /\ UNCHANGED registry
  /\ cln' = clnContinue
  /\ UNCHANGED <<now, ticks, flags, inj>>

\* --------------------------------------------------------------- the clock
Tick(d) ==
  /\ inj.pc = "idle" /\ cln.pc = "idle"
  /\ ticks < MaxTicks
  /\ now + d <= MaxTime
  /\ now' = now + d
  /\ ticks' = ticks + 1
  /\ UNCHANGED <<registry, flags, inj, cln, swept>>

\* ------------------------------------------------------------ specification
\* One call at a time: an injection and a sweep do not overlap.
Next ==
  \/ \E der \in DerInputs, ok \in BOOLEAN : cln.pc = "idle" /\ InjectOpenStore(der, ok)
  \/ \E ok \in BOOLEAN : InjectCreateKey(ok)
  \/ \E ok \in BOOLEAN : InjectDeleteValue(ok)
  \/ \E ok, touch \in BOOLEAN : InjectSetDWordValue(ok, touch)
  \/ \E ok, touch \in BOOLEAN : InjectSetBinaryValue(ok, touch)
  \/ \E ok \in BOOLEAN : inj.pc = "idle" /\ CleanOpenStore(ok)
  \/ \E ok \in BOOLEAN : \E order \in ListOrders : CleanReadSubKeyNames(ok, order)
  \/ \E ok \in BOOLEAN : CleanOpenKey(ok)
  \/ \E ok \in BOOLEAN : CleanGetIntegerValue(ok)
  \/ \E ok \in BOOLEAN : CleanStat(ok)
  \/ \E ok \in BOOLEAN : CleanDeleteKey(ok)
  \/ \E d \in TickSteps : Tick(d)

Spec == Init /\ [][Next]_vars

\* ------------------------------------------------------------------- claims
\* What the sweep, running or last, decided about key n.
Visited(n) == swept[n].out # "unvisited"
Condemned(n) == swept[n].out \in {"expired", "deleted", "deleteError"}
SeenAge(n) == Abs(swept[n].at - swept[n].seen.mod)
Listed == {cln.subKeys[i] : i \in 1..Len(cln.subKeys)}

\* C1. Ownership respect: the sweep deletes (or tries to delete) a key only
\* when it read the magic value 1 from it; a key whose magic value is absent,
\* unreadable or another value is left in the store as it was, whatever its age.
OwnershipRespect ==
  \A n \in KeyNames :
    /\ Condemned(n) => swept[n].seen.magic = {cryptoAPIMagicValue}
    /\ swept[n].out \in {"notNamecoin", "unreadable"} =>
         HasKey(n) /\ SubKeys[n] = swept[n].seen
    /\ swept[n].out = "notNamecoin" => swept[n].seen.magic # {cryptoAPIMagicValue}

\* A key bearing another magic value, older than the period, was visited by a
\* sweep that has returned, and is still there.
OwnershipWitness ==
  \E n \in KeyNames :
    /\ cln.returned /\ swept[n].out = "notNamecoin"
    /\ swept[n].seen.magic = {OtherMagicValue}
    /\ SeenAge(n) > certExpirePeriod
    /\ HasKey(n)

\* C2. Expiry boundary: a key with the magic value whose last-write time was
\* read is deleted if and only if |now - last-write time| > period: at an age
\* equal to the period it stays, one hour above it is condemned, and the
\* condemned key is gone once DeleteKey has succeeded.
ExpiryBoundary ==
  \A n \in KeyNames :
    /\ swept[n].out = "fresh" => SeenAge(n) <= certExpirePeriod /\ HasKey(n)
    /\ Condemned(n) => SeenAge(n) > certExpirePeriod
    /\ swept[n].out = "expired" => cln.pc = "DeleteKey" /\ subKeyName = n
    /\ swept[n].out = "deleted" => ~HasKey(n)

\* One sweep kept a key of age exactly the period and deleted a key one hour older.
ExpiryBoundaryWitness ==
  \E n, m \in KeyNames :
    /\ swept[n].out = "fresh" /\ SeenAge(n) = certExpirePeriod
    /\ swept[m].out = "deleted" /\ SeenAge(m) = certExpirePeriod + 1

\* C3. Partial-failure isolation, as claimed: a sweep that listed the keys has,
\* when it returns, visited every listed name, also after one of them failed.
PartialFailureIsolation ==
  (cln.returned /\ cln.err \notin {"store", "open", "list"}) =>
    \A n \in Listed : Visited(n)

\* C4. Inject-then-Clean lifecycle, period 24 h: a sweep that inspects a key
\* in the hour in which an injection into it completed does not condemn it;
\* a sweep that inspects it 25 h or more after that injection, no injection
\* having opened the key since, deletes it (unless a registry call fails).
InjectThenClean ==
  certExpirePeriod = 24 =>
    \A n \in KeyNames :
      (Visited(n) /\ swept[n].seen.injectedAt >= 0) =>
        /\ swept[n].at = swept[n].seen.injectedAt => ~Condemned(n)
        /\ (/\ swept[n].at - swept[n].seen.injectedAt >= 25
            /\ swept[n].out \notin {"openError", "unreadable", "statError", "deleteError"})
           => \/ swept[n].out = "deleted" /\ ~HasKey(n)
              \/ swept[n].out = "expired" /\ cln.pc = "DeleteKey"

\* One sweep, at hour 25: the key injected at hour 0 is deleted, the key
\* injected at hour 25 is kept.
InjectThenCleanWitness ==
  \E n, m \in KeyNames :
    /\ certExpirePeriod = 24 /\ cln.returned
    /\ swept[n].out = "deleted" /\ swept[n].seen.injectedAt = 0 /\ swept[n].at = 25
    /\ swept[m].out = "fresh" /\ swept[m].seen.injectedAt = 25 /\ swept[m].at = 25
    /\ ~HasKey(n) /\ HasKey(m)

\* C5. Re-injection refreshes age: an injection that finds the key with its
\* magic value, deletes and rewrites it and writes the Blob leaves the key's
\* last-write time at the injection time, however old the key was; a sweep
\* within the period after it does not condemn the key.
ReinjectionRefreshes ==
  /\ \A n \in KeyNames :
       (HasKey(n) /\ SubKeys[n].renewed # "no" /\ SubKeys[n].injectedAt >= 0) =>
         SubKeys[n].mod = SubKeys[n].injectedAt
  /\ \A n \in KeyNames :
       (/\ Visited(n) /\ swept[n].seen.renewed # "no"
        /\ swept[n].seen.injectedAt >= 0
        /\ swept[n].at - swept[n].seen.injectedAt <= certExpirePeriod)
       => ~Condemned(n)

\* A key that was older than the period when it was re-injected is found
\* fresh by a sweep in the hour of the re-injection.
ReinjectionWitness ==
  \E n \in KeyNames :
    /\ swept[n].out = "fresh" /\ swept[n].seen.renewed = "stale"
    /\ swept[n].at = swept[n].seen.injectedAt
    /\ HasKey(n) /\ cln.returned

\* C6. Provenance, as claimed: the sweep never deletes a key that another
\* program created.
ProvenanceAsClaimed ==
  \A n \in KeyNames : swept[n].out = "deleted" => swept[n].seen.creator = "tool"

\* C6, amended: the sweep deletes a key that another program created only
\* after an injection has written the magic value into it.
Provenance ==
  \A n \in KeyNames : swept[n].out = "deleted" => swept[n].seen.creator # "other"

\* The sweep has deleted a key of another program that an injection had marked.
ProvenanceWitness ==
  \E n \in KeyNames :
    /\ swept[n].out = "deleted" /\ swept[n].seen.creator = "adopted"
    /\ ~HasKey(n)

\* The injection that has returned went through without an error.
Injected == inj.returned /\ inj.err = "none"

\* The uppercase hexadecimal form of a digest, written out digit by digit.
UpperDigits ==
  <<"0", "1", "2", "3", "4", "5", "6", "7", "8", "9", "A", "B", "C", "D", "E", "F">>
UpperHex(digest) ==
  [i \in 1..(2 * Len(digest)) |->
     IF i % 2 = 1 THEN UpperDigits[(digest[(i + 1) \div 2] \div 16) + 1]
     ELSE UpperDigits[(digest[i \div 2] % 16) + 1]]

\* C7. Identity stability and idempotence: every injection of the same bytes
\* that goes through, the first as the second, leaves its values in the key
\* named by the uppercase hex digest: magic 1 and the Blob of those bytes, in
\* that key and no other; a certificate with another digest has another key.
IdentityStability ==
  Injected =>
    LET n == UpperHex(sha1Sum(inj.der))
        bytes == Marshal(certBlob(inj.der)).bytes
    IN  /\ HasKey(n)
        /\ SubKeys[n].magic = {cryptoAPIMagicValue}
        /\ SubKeys[n].blob = {bytes}
        /\ {m \in DOMAIN SubKeys : SubKeys[m].blob = {bytes}} = {n}
        /\ \A d \in KnownCerts :
             sha1Sum(d) # sha1Sum(inj.der) => FingerprintHexUpper(d) # n

\* A second injection of the same bytes has gone through, into the key the
\* first one left, while the other certificate, injected too, has its own key.
IdentityWitness ==
  \E n, m \in KeyNames :
    /\ Injected /\ n = FingerprintHexUpper(inj.der) /\ m # n
    /\ HasKey(n) /\ SubKeys[n].renewed # "no" /\ SubKeys[n].injectedAt >= 0
    /\ HasKey(m) /\ SubKeys[m].injectedAt >= 0

\* C8. Inject postcondition: after an injection in which every step succeeded
\* the key named by the fingerprint holds magic = 1 and a Blob that decodes to
\* exactly one record, tag 0x20, payload the certificate bytes.
InjectPostcondition ==
  Injected =>
    /\ HasKey(fingerprintHexUpper)
    /\ SubKeys[fingerprintHexUpper].magic = {cryptoAPIMagicValue}
    /\ \E b \in SubKeys[fingerprintHexUpper].blob :
         /\ SubKeys[fingerprintHexUpper].blob = {b}
         /\ Unmarshal(b) =
              [err |-> "none", records |-> <<[tag |-> 32, payload |-> inj.der]>>]

\* The 300-byte certificate has been injected over a key of another program.
InjectPostconditionWitness ==
  /\ Injected /\ inj.der = certB /\ inj.del = "absent"
  /\ HasKey(fingerprintHexUpper)
  /\ SubKeys[fingerprintHexUpper].creator = "adopted"

\* C9. Inject early failure: when the physical store name is unknown, the
\* Blob cannot be marshalled or the store key cannot be opened, the injection
\* returns with the registry as it was, holding no handle; a store key that
\* is missing is never created.
InjectEarlyFailure ==
  /\ [](DOMAIN registry = ExistingStores)
  /\ []((inj.returned /\ inj.err \in {"store", "marshal", "open"}) =>
          inj.pc = "idle" /\ inj.handles = {})
  /\ []((inj.returned /\ (flagStore.err \/ flagPath \notin DOMAIN registry
                          \/ Marshal(certBlob(inj.der)).err)) =>
          inj.err \in {"store", "marshal", "open"})
  /\ [][(inj'.returned /\ inj'.err \in {"store", "marshal", "open"}) =>
          registry' = registry]_vars

\* An injection has failed to open a store that does not exist.
InjectEarlyFailureWitness ==
  /\ inj.returned /\ inj.err = "open"
  /\ ~flagStore.err /\ flagPath \notin DOMAIN registry

\* C10. Clean top-level failure: when resolving the store, opening the store
\* key or listing its keys fails, the sweep has returned having inspected and
\* deleted nothing.
CleanTopLevelFailure ==
  /\ [](cln.err \in {"store", "open", "list"} =>
          cln.pc = "idle" /\ cln.returned /\ cln.handles = {} /\ swept = NoSweep)
  /\ []((cln.returned /\ (flagStore.err \/ flagPath \notin DOMAIN registry)) =>
          cln.err \in {"store", "open"})
  /\ [][cln'.err \in {"store", "open", "list"} => registry' = registry]_vars

\* Listing the keys failed in a store that holds an expired key of this tool.
CleanTopLevelFailureWitness ==
  /\ cln.returned /\ cln.err = "list"
  /\ \E n \in KeyNames :
       /\ HasKey(n) /\ SubKeys[n].magic = {cryptoAPIMagicValue}
       /\ expired(SubKeys[n].mod)

\* The place of key n in the list the sweep works through (0: not listed).
IndexOf(n) ==
  IF n \in Listed THEN CHOOSE i \in 1..Len(cln.subKeys) : cln.subKeys[i] = n ELSE 0
\* The outcomes that end a sweep at the key where they happen (lines 206-209).
Aborting == {"openError", "statError"}

\* C11. Deletion failure isolated: when DeleteKey fails on a key found expired,
\* the failure is recorded for that key, the key stays as it was, and the loop
\* goes on to the names after it: a sweep that has returned after such a failure
\* returned no error and visited every listed name, unless the check of a later
\* key failed; a sweep still running is past that key.
DeletionFailureIsolated ==
  \A n \in KeyNames :
    swept[n].out = "deleteError" =>
      /\ n \in Listed
      /\ HasKey(n) /\ SubKeys[n] = swept[n].seen
      /\ cln.pc # "idle" => IndexOf(n) < cln.i
      /\ cln.pc = "idle" =>
           /\ cln.returned
           /\ \/ cln.err = "none" /\ \A m \in Listed : Visited(m)
              \/ /\ cln.err = "check"
                 /\ \E m \in Listed :
                      IndexOf(m) > IndexOf(n) /\ swept[m].out \in Aborting

\* The deletion of the first listed key failed, and the sweep went on to delete
\* the second and returned no error.
DeletionFailureWitness ==
  /\ cln.returned /\ cln.err = "none" /\ Len(cln.subKeys) = 2
  /\ swept[cln.subKeys[1]].out = "deleteError"
  /\ swept[cln.subKeys[2]].out = "deleted"
  /\ HasKey(cln.subKeys[1]) /\ ~HasKey(cln.subKeys[2])

\* The sweep read the magic value 1 and the last-write time of key n.
Examined(n) == swept[n].out \in {"fresh", "expired", "deleted", "deleteError"}
\* How far the last-write time the sweep read lay ahead of the clock.
SeenAhead(n) == swept[n].seen.mod - swept[n].at

\* C12, as stated. Future timestamps: a key with the magic value whose
\* last-write time lies in the future by more than the period is not found
\* expired, and the sweep does not delete it.
FutureNotExpired ==
  \A n \in KeyNames :
    Examined(n) /\ SeenAhead(n) > certExpirePeriod =>
      swept[n].out = "fresh" /\ HasKey(n)

\* C12, amended. Future timestamps: line 251 takes the absolute value of the
\* elapsed time, so a key with the magic value whose last-write time lies in
\* the future by more than the period is found expired and DeleteKey is called
\* on it; one that lies in the future by the period or less is kept.
FutureExpires ==
  \A n \in KeyNames :
    /\ Examined(n) /\ SeenAhead(n) > certExpirePeriod =>
         /\ Condemned(n)
         /\ swept[n].out = "deleted" => ~HasKey(n)
    /\ Examined(n) /\ SeenAhead(n) >= 0 /\ SeenAhead(n) <= certExpirePeriod =>
         swept[n].out = "fresh" /\ HasKey(n)

\* A key written by this program, its last-write time more than the period
\* ahead of the clock, was deleted by a sweep that has returned.
FutureExpiresWitness ==
  \E n \in KeyNames :
    /\ cln.returned /\ swept[n].out = "deleted" /\ ~HasKey(n)
    /\ swept[n].seen.magic = {cryptoAPIMagicValue}
    /\ SeenAhead(n) > certExpirePeriod

\* --------------------------------------------- an injection racing a sweep
(* One injection of RaceCert and one sweep, as two processes whose registry
   calls interleave freely.  The key of RaceCert is in the store, written by
   this program more than the expiry period ago; the other key is absent or
   anything InitEntries allows.  No registry call fails on its own account: a
   call fails only when the key it addresses has been deleted under it (a
   handle to a deleted key refuses every operation).  The clock stands still:
   both calls take far less than an hour. *)
RaceCert == certA
RaceName == FingerprintHexUpper(RaceCert)
OtherCert == certB
OtherName == FingerprintHexUpper(OtherCert)

InitRace ==
  /\ now = MaxTime
  /\ ticks = 0
  /\ cryptoAPIFlagPhysicalStoreName = "system"
  /\ cryptoAPIFlagLogicalStoreName = "Root"
  /\ certExpirePeriod \in ExpirePeriods
  /\ \E others \in {<<>>} \cup {<<e>> : e \in InitEntries(OtherCert)} :
       registry =
         [p \in ExistingStores |->
            [n \in {RaceName} \cup {OtherName : i \in DOMAIN others} |->
               IF n = RaceName
               THEN Entry({cryptoAPIMagicValue}, {Marshal(certBlob(RaceCert)).bytes},
                          0, "tool")
               ELSE others[1]]]
  /\ inj = injIdle
  /\ cln = clnIdle
  /\ swept = NoSweep

\* Each call is made once, and starts before the other has returned.
NextRace ==
  \/ /\ inj = injIdle
     /\ cln = clnIdle \/ cln.pc # "idle"
     /\ InjectOpenStore(RaceCert, TRUE)
  \/ InjectCreateKey(TRUE)
  \/ InjectDeleteValue(TRUE)
  \/ \E touch \in BOOLEAN : InjectSetDWordValue(TRUE, touch)
  \/ \E touch \in BOOLEAN : InjectSetBinaryValue(TRUE, touch)
  \/ /\ cln = clnIdle
     /\ inj = injIdle \/ inj.pc # "idle"
     /\ CleanOpenStore(TRUE)
  \/ \E order \in ListOrders : CleanReadSubKeyNames(TRUE, order)
  \/ CleanOpenKey(TRUE)
  \/ CleanGetIntegerValue(TRUE)
  \/ CleanStat(TRUE)
  \/ CleanDeleteKey(TRUE)

SpecRace == InitRace /\ [][NextRace]_vars

\* C13. Benign race: once an injection of a certificate whose key is older
\* than the period and a sweep running at the same time have both returned,
\* that key is absent, or holds the magic value 1 and the Blob of the
\* certificate; it is never left without the magic value or without the Blob.
\* The sweep returns no error, the injection fails only when the sweep deleted
\* the key under it, and the other key is as it was, or was deleted by the
\* sweep because it bore the magic value 1 and was older than the period.
BenignRace ==
  inj.returned /\ cln.returned =>
    /\ HasKey(RaceName) =>
         /\ SubKeys[RaceName].magic = {cryptoAPIMagicValue}
         /\ SubKeys[RaceName].blob = {Marshal(certBlob(RaceCert)).bytes}
    /\ ~HasKey(RaceName) => swept[RaceName].out = "deleted"
    /\ cln.err = "none"
    /\ inj.err \in {"none", "magic", "blob"}
    /\ inj.err # "none" => ~HasKey(RaceName)
    /\ HasKey(OtherName) =>
         OtherName \in Listed /\ SubKeys[OtherName] \in InitEntries(OtherCert)
    /\ OtherName \in Listed /\ ~HasKey(OtherName) =>
         /\ swept[OtherName].out = "deleted"
         /\ swept[OtherName].seen \in InitEntries(OtherCert)
         /\ swept[OtherName].seen.magic = {cryptoAPIMagicValue}
         /\ SeenAge(OtherName) > certExpirePeriod

\* Both have returned, the injection with every step done, and the key is gone:
\* the sweep found it expired before the injection renewed it, and deleted it
\* afterwards.
BenignRaceWitness ==
  /\ inj.returned /\ cln.returned /\ inj.err = "none" /\ inj.found = "both"
  /\ ~HasKey(RaceName) /\ swept[RaceName].out = "deleted"

\* The states of a key that an injection which stopped part-way leaves: the
\* Blob without the magic value, the magic value without the Blob, or neither.
Partial == {"blob", "magic", "bare"}

\* C14. Repair by re-injection: an injection that found the key of its
\* certificate in a partial state, and whose steps all succeeded, leaves the
\* key with the magic value 1 and with the Blob that encodes the certificate.
RepairByReinjection ==
  Injected /\ inj.found \in Partial =>
    /\ HasKey(fingerprintHexUpper)
    /\ SubKeys[fingerprintHexUpper].magic = {cryptoAPIMagicValue}
    /\ SubKeys[fingerprintHexUpper].blob = {Marshal(certBlob(inj.der)).bytes}

\* An injection has repaired a key that this program had created and a failed
\* injection had left with the magic value and no Blob.
RepairWitness ==
  /\ Injected /\ inj.found = "magic" /\ inj.del = "deleted"
  /\ SubKeys[fingerprintHexUpper].creator = "tool"
  /\ SubKeys[fingerprintHexUpper].magic = {cryptoAPIMagicValue}
  /\ SubKeys[fingerprintHexUpper].blob = {Marshal(certBlob(inj.der)).bytes}

\* The other two partial states, repaired likewise.
RepairWitnessBlob ==
  /\ Injected /\ inj.found = "blob" /\ SubKeys[fingerprintHexUpper].creator = "tool"
RepairWitnessBare ==
  /\ Injected /\ inj.found = "bare" /\ SubKeys[fingerprintHexUpper].creator = "tool"

\* C15. Handle release: a call that is not running holds no handle, whatever
\* way it returned.  A running sweep holds the handle of the store key and, from
\* OpenKey of a certificate key to the end of its check, the handle of that one
\* key, closed before DeleteKey and before the next name.  A running injection
\* holds the handle of the store key and, from CreateKey on, that of its key.
HandleRelease ==
  /\ inj.pc = "idle" => inj.handles = {}
  /\ cln.pc = "idle" => cln.handles = {}
  /\ cln.pc \in {"ReadSubKeyNames", "OpenKey", "DeleteKey"} =>
       cln.handles = {"certStoreKey"}
  /\ cln.pc \in {"GetIntegerValue", "Stat"} =>
       cln.handles = {"certStoreKey", "certKey"}
  /\ Cardinality(cln.handles) <= 2
  /\ inj.pc = "CreateKey" => inj.handles = {"certStoreKey"}
  /\ inj.pc \in {"DeleteValue", "SetDWordValue", "SetBinaryValue"} =>
       inj.handles = {"certStoreKey", "certKey"}

\* A sweep is at the second name of its list, after a first key whose handle it
\* had opened and closed again, holding the store handle alone.
HandleReleaseWitness ==
  /\ cln.pc = "OpenKey" /\ cln.i = 2 /\ cln.handles = {"certStoreKey"}
  /\ swept[cln.subKeys[1]].out = "fresh"

\* The order of the steps of an injection: from each step, the steps that may
\* follow it ("idle": the call returns).
InjectOrder ==
  {<<"idle", "CreateKey">>, <<"CreateKey", "DeleteValue">>, <<"CreateKey", "idle">>,
   <<"DeleteValue", "SetDWordValue">>, <<"SetDWordValue", "SetBinaryValue">>,
   <<"SetDWordValue", "idle">>, <<"SetBinaryValue", "idle">>}

\* What one step of an injection does to the key of its certificate.
InjectStep ==
  LET k  == FingerprintHexUpper(inj.der)
      e  == SubKeys[k]
      e2 == SubKeys'[k]
      same == registry' = registry
  IN  /\ inj'.pc # inj.pc => <<inj.pc, inj'.pc>> \in InjectOrder
      /\ inj.pc = "CreateKey" /\ inj'.pc = "idle" => inj'.err = "create" /\ same
      /\ inj.pc = "CreateKey" /\ inj'.pc = "DeleteValue" =>
           /\ HasKey(k)'
           /\ HasKey(k) => e2.magic = e.magic /\ e2.blob = e.blob /\ e2.mod = e.mod
           /\ ~HasKey(k) => e2.magic = {} /\ e2.blob = {}
      /\ inj.pc = "DeleteValue" =>
           /\ inj'.pc = "SetDWordValue" /\ inj'.err = "none"
           /\ inj'.del = "error" => same
           /\ inj'.del # "error" => e2.magic = {} /\ e2.blob = e.blob
      /\ inj.pc = "SetDWordValue" /\ inj'.pc = "SetBinaryValue" =>
           e2.magic = {cryptoAPIMagicValue} /\ e2.blob = e.blob
      /\ inj.pc = "SetDWordValue" /\ inj'.pc = "idle" => inj'.err = "magic" /\ same
      /\ inj.pc = "SetBinaryValue" =>
           /\ inj'.pc = "idle"
           /\ \/ inj'.err = "none" /\ e2.blob = {inj.blobBytes} /\ e2.magic = e.magic
              \/ inj'.err = "blob" /\ same

\* What an injection that stopped at a failed step has left behind.
InjectLeft ==
  LET k == FingerprintHexUpper(inj.der)
  IN  /\ inj.returned /\ inj.err = "create" => inj.found = "none" /\ inj.del = "none"
      /\ inj.returned /\ inj.err = "magic" =>
           /\ HasKey(k)
           /\ inj.del \in {"deleted", "absent"} => SubKeys[k].magic = {}
           /\ inj.found \in {"new", "bare", "magic"} <=> SubKeys[k].blob = {}
      /\ inj.returned /\ inj.err = "blob" =>
           HasKey(k) /\ SubKeys[k].magic = {cryptoAPIMagicValue}

\* C16. Inject step order without rollback: an injection creates or opens the
\* key, then deletes the magic value, then writes the magic value, then writes
\* the Blob, in that order.  A failure of the delete is ignored.  The first
\* failure of the create, of the write of the magic value or of the write of the
\* Blob ends the call: no later step is made (so no Blob is written after a
\* failed write of the magic value) and what the earlier steps did stays.
InjectStepOrder == [][InjectStep]_vars /\ []InjectLeft

\* The write of the magic value failed in a key that held both values: the
\* magic value deleted by the step before stays deleted, the old Blob is there.
InjectStepOrderWitness ==
  /\ inj.returned /\ inj.err = "magic" /\ inj.found = "both" /\ inj.del = "deleted"
  /\ SubKeys[fingerprintHexUpper].magic = {}
  /\ SubKeys[fingerprintHexUpper].blob # {}

\* Every store but the one the flags select, and every key of that store but
\* the keys in S, is the same before and after the step.
FrameExcept(S) ==
  \/ registry' = registry
  \/ /\ DOMAIN registry' = DOMAIN registry
     /\ \A p \in DOMAIN registry :
          p # flagPath => registry'[p] = registry[p]
     /\ flagPath \in DOMAIN registry =>
          /\ DOMAIN SubKeys' \ S = DOMAIN SubKeys \ S
          /\ \A n \in DOMAIN SubKeys \ S : SubKeys'[n] = SubKeys[n]

\* The step belongs to an injection (it starts one or finds one running).
InjectRuns == inj.pc # "idle" \/ inj'.pc # "idle"
\* The step belongs to a sweep.
CleanRuns == cln.pc # "idle" \/ cln'.pc # "idle"

\* C17. Frame: a step of an injection changes nothing in the registry but the
\* key named by the fingerprint of its certificate.  A step of a sweep creates
\* no key and writes or deletes no value: every key is afterwards either gone
\* or as it was, with its magic value, its Blob and its last-write time.
Frame ==
  [][ /\ InjectRuns => FrameExcept({FingerprintHexUpper(inj'.der)})
      /\ CleanRuns =>
           /\ FrameExcept(DOMAIN SubKeys \ DOMAIN SubKeys')
           /\ flagPath \in DOMAIN registry => DOMAIN SubKeys' \subseteq DOMAIN SubKeys
    ]_vars

\* An injection has returned with every step done, and the other key, which
\* bears the magic value of this program, is as it was at the start.
FrameWitness ==
  /\ Injected
  /\ \E c \in KnownCerts :
       /\ FingerprintHexUpper(c) # fingerprintHexUpper
       /\ HasKey(FingerprintHexUpper(c))
       /\ SubKeys[FingerprintHexUpper(c)] \in InitEntries(c)
       /\ SubKeys[FingerprintHexUpper(c)].magic = {cryptoAPIMagicValue}

\* ------------------------------------- sweeps that succeed, again and again
(* Injections, which may fail at any step, take place in the first hour; then
   the clock advances by more than the expiry period, once (the clock of the
   model is bounded); sweeps, none of whose registry calls fails, start again
   and again.  The keys an earlier run left are dated in the past.  A call that
   has started runs to its return: the code is sequential and does not block.
   That the clock advances and that sweeps keep being started are the
   conditions under which removal is promised. *)
InitLive ==
  /\ Init
  /\ cryptoAPIFlagPhysicalStoreName = "system"
  /\ \A n \in DOMAIN SubKeys : SubKeys[n].mod <= now

InjectStart ==
  \E der \in DerInputs, ok \in BOOLEAN :
    now = 0 /\ cln.pc = "idle" /\ InjectOpenStore(der, ok)

InjectRun ==
  \/ \E ok \in BOOLEAN : InjectCreateKey(ok)
  \/ \E ok \in BOOLEAN : InjectDeleteValue(ok)
  \/ \E ok, touch \in BOOLEAN : InjectSetDWordValue(ok, touch)
  \/ \E ok, touch \in BOOLEAN : InjectSetBinaryValue(ok, touch)

CleanStart == inj.pc = "idle" /\ CleanOpenStore(TRUE)

CleanRun ==
  \/ \E order \in ListOrders : CleanReadSubKeyNames(TRUE, order)
  \/ CleanOpenKey(TRUE)
  \/ CleanGetIntegerValue(TRUE)
  \/ CleanStat(TRUE)
  \/ CleanDeleteKey(TRUE)

PeriodPasses == Tick(certExpirePeriod + 1)

NextLive == InjectStart \/ InjectRun \/ CleanStart \/ CleanRun \/ PeriodPasses

FairLive ==
  /\ WF_vars(InjectRun)
  /\ WF_vars(CleanRun)
  /\ SF_vars(CleanStart)
  /\ SF_vars(PeriodPasses)

SpecLive == InitLive /\ [][NextLive]_vars /\ FairLive

\* A step of the sweep visits the name at hand and no other: the index moves
\* on by one, and what was recorded for a name visited before is not touched
\* again, but for the outcome of the deletion of a key found expired.
SweepStep ==
  /\ cln'.pc # "idle" /\ cln.pc # "idle" => cln'.i \in {cln.i, cln.i + 1}
  /\ cln.pc # "idle" =>
       \A n \in KeyNames :
         swept'[n] # swept[n] =>
           /\ n = subKeyName
           /\ \/ ~Visited(n)
              \/ /\ cln.pc = "DeleteKey" /\ swept[n].out = "expired"
                 /\ swept'[n].out \in {"deleted", "deleteError"}

\* A sweep under way has visited the names before the one at hand, none after.
SweepProgress ==
  cln.pc \in {"OpenKey", "GetIntegerValue", "Stat", "DeleteKey"} =>
    \A j \in 1..Len(cln.subKeys) :
      /\ j < cln.i => Visited(cln.subKeys[j])
      /\ j > cln.i => ~Visited(cln.subKeys[j])

\* A sweep that has returned listed every key once, visited every name it
\* listed, and left no key that bore the magic value 1 and whose age, when it
\* was visited, exceeded the period; the keys it left are as they were.
SweepDone ==
  cln.returned =>
    /\ cln.err = "none"
    /\ Len(cln.subKeys) = Cardinality(Listed)
    /\ \A n \in KeyNames :
         /\ Visited(n) <=> n \in Listed
         /\ HasKey(n) => n \in Listed
         /\ HasKey(n) =>
              /\ SubKeys[n] = swept[n].seen
              /\ ~(swept[n].seen.magic = {cryptoAPIMagicValue}
                     /\ SeenAge(n) > certExpirePeriod)

\* C18. Sweep completeness: a sweep none of whose registry calls fails, with no
\* other call running, visits every name it listed exactly once and returns;
\* once it has returned, no key that was listed is left that bore the magic
\* value 1 and was, when visited, older than the period.
SweepCompleteness ==
  /\ [][SweepStep]_vars
  /\ [](SweepProgress /\ SweepDone)
  /\ (cln.pc # "idle") ~> cln.returned

\* A sweep of two keys has returned: it deleted the one that bore the magic
\* value 1 and was older than the period, and left the one of another program.
SweepCompletenessWitness ==
  /\ cln.returned /\ Len(cln.subKeys) = 2
  /\ \E n, m \in Listed :
       /\ swept[n].out = "deleted" /\ ~HasKey(n)
       /\ SeenAge(n) > certExpirePeriod
       /\ swept[m].out = "notNamecoin" /\ HasKey(m)

\* C19, as stated. Eventual removal: every key that an injection created or
\* wrote into, one left by a failed injection included, is eventually deleted,
\* once no more injections are made, the clock advances and sweeps that succeed
\* keep being made.
EventualRemovalAsClaimed ==
  \A n \in KeyNames :
    (HasKey(n) /\ SubKeys[n].creator # "other" /\ now > 0) ~> ~HasKey(n)

\* C19, amended. Eventual removal: every key into which an injection has
\* written the magic value 1, whether or not the Blob followed, is eventually
\* deleted under those conditions; a key that a failed injection left without
\* the magic value is not deleted by any sweep.
EventualRemoval ==
  /\ \A n \in KeyNames :
       (HasKey(n) /\ SubKeys[n].magic = {cryptoAPIMagicValue} /\ now > 0)
         ~> ~HasKey(n)
  /\ \A n \in KeyNames :
       [](HasKey(n) /\ SubKeys[n].magic = {} /\ now > 0 => [](HasKey(n)))

\* A sweep has deleted a key that an injection of this run created and left
\* with the magic value and no Blob, the write of the Blob having failed.
EventualRemovalWitness ==
  \E n \in KeyNames :
    /\ swept[n].out = "deleted" /\ ~HasKey(n)
    /\ swept[n].seen.creator = "tool"
    /\ swept[n].seen.magic = {cryptoAPIMagicValue}
    /\ swept[n].seen.blob = {}

====
